---- MODULE Spec2Model ----
(***************************************************************************)
(* A model of the ASCII maze engine of src/maze-ify-ascii-v3.py (class     *)
(* mazeify): the character grid, the 3x3 macro-cell codec, the 2D pattern  *)
(* find/replace, the iterative region fill, the outside/avoid initializer, *)
(* the randomized carving walk and the transform/render pair.              *)
(*                                                                         *)
(* Text is a sequence of one-character strings.  The board is a sequence   *)
(* of rows, each a sequence of one-character strings; the code's (x,y) is  *)
(* board[y+1][x+1].  Random choices of the code (randint, shuffle) are     *)
(* nondeterministic choices of the actions.                                *)
(***************************************************************************)
EXTENDS Integers, Sequences, FiniteSets, TLC

\* ------------------------------------------------------------------------
\* Program constants of mazeify.__init__
\* ------------------------------------------------------------------------

deltas == << <<0, -1>>, <<0, 1>>, <<-1, 0>>, <<1, 0>> >>

zdeltas == << <<1, -1>>, <<-1, -1>>, <<1, 1>>, <<-1, 1>> >> \o deltas

eol == "\n"

eol2 == "\n"

walls == {"/", "\\", "_", "|", "-", "+", "#"}

walls_diagonal == {"/", "\\"}

\* a variant without corner characters
no_corners == {}

corners == {"+"}

space == " "

unvisited == " "

\* the code's marker is the backquote, which a TLA+ string cannot hold; the
\* model writes it as the apostrophe, a character the code gives no role
visited == "'"

avoid == "~"

\* a variant of the masks: the underscore's middle row carries the glyph too
centred_char_map ==
  [c \in {"/", "|", "\\", "_", "-"} |->
     CASE c = "/"  -> << <<" ", " ", "/">>, <<" ", "/", " ">>, <<"/", " ", " ">> >>
       [] c = "|"  -> << <<" ", "|", " ">>, <<" ", "|", " ">>, <<" ", "|", " ">> >>
       [] c = "\\" -> << <<"\\", " ", " ">>, <<" ", "\\", " ">>, <<" ", " ", "\\">> >>
       [] c = "_"  -> << <<" ", " ", " ">>, <<" ", "_", " ">>, <<"_", "_", "_">> >>
       [] c = "-"  -> << <<" ", " ", " ">>, <<"-", "-", "-">>, <<" ", " ", " ">> >>]

microspace_char_map ==
  [c \in {"/", "|", "\\", "_", "-"} |->
     CASE c = "/"  -> << <<" ", " ", "/">>, <<" ", "/", " ">>, <<"/", " ", " ">> >>
       [] c = "|"  -> << <<" ", "|", " ">>, <<" ", "|", " ">>, <<" ", "|", " ">> >>
       [] c = "\\" -> << <<"\\", " ", " ">>, <<" ", "\\", " ">>, <<" ", " ", "\\">> >>
       [] c = "_"  -> << <<" ", " ", " ">>, <<" ", " ", " ">>, <<"_", "_", "_">> >>
       [] c = "-"  -> << <<" ", " ", " ">>, <<"-", "-", "-">>, <<" ", " ", " ">> >>]

\* ------------------------------------------------------------------------
\* Python string and list primitives used by the code
\* ------------------------------------------------------------------------

\* list membership: p in xs
InSeq(p, xs) == \E i \in 1..Len(xs) : xs[i] = p

\* list.remove(p): drops the first occurrence (the code only removes members)
RECURSIVE SeqRemove(_, _)
SeqRemove(xs, p) ==
  IF xs = <<>> THEN <<>>
  ELSE IF Head(xs) = p THEN Tail(xs)
  ELSE <<Head(xs)>> \o SeqRemove(Tail(xs), p)

RECURSIVE concat(_)
concat(ss) == IF ss = <<>> THEN <<>> ELSE Head(ss) \o concat(Tail(ss))

\* c * n
str_repeat(c, n) == [i \in 1..n |-> c]

\* str.split(sep) for a one-character separator
RECURSIVE str_split(_, _)
str_split(s, sep) ==
  IF \A i \in 1..Len(s) : s[i] # sep THEN <<s>>
  ELSE LET i == CHOOSE k \in 1..Len(s) :
                  s[k] = sep /\ \A j \in 1..(k - 1) : s[j] # sep
       IN  <<SubSeq(s, 1, i - 1)>> \o str_split(SubSeq(s, i + 1, Len(s)), sep)

\* the least element of a non-empty set of integers
Least(S) == CHOOSE n \in S : \A m \in S : n <= m

\* str.replace(f, r): left to right, non-overlapping; f is not empty.  A
\* one-character f replaced by a one-character r is a map over the text.
RECURSIVE str_replace(_, _, _)
str_replace(s, f, r) ==
  IF Len(f) = 1 /\ Len(r) = 1
  THEN [i \in 1..Len(s) |-> IF s[i] = f[1] THEN r[1] ELSE s[i]]
  ELSE LET hits == {i \in 1..(Len(s) - Len(f) + 1) : SubSeq(s, i, i + Len(f) - 1) = f}
       IN  IF hits = {} THEN s
           ELSE LET i == Least(hits)
                IN  SubSeq(s, 1, i - 1) \o r
                      \o str_replace(SubSeq(s, i + Len(f), Len(s)), f, r)

\* the characters str.rstrip() removes
Whitespace == {" ", "\t", "\n", "\r", "\f"}

\* str.rstrip()
str_rstrip(s) ==
  LET keep == {i \in 1..Len(s) : s[i] \notin Whitespace}
  IN  IF keep = {} THEN <<>>
      ELSE SubSeq(s, 1, CHOOSE n \in keep : \A m \in keep : m <= n)

\* len(max(lines, key=len))
MaxLineLen(lines) ==
  CHOOSE n \in {Len(lines[i]) : i \in 1..Len(lines)} :
    \A i \in 1..Len(lines) : Len(lines[i]) <= n

\* ------------------------------------------------------------------------
\* Transform: macro expansion and whitespace frame
\* ------------------------------------------------------------------------

\* the 3x3 mask of a character; unmapped characters are solid blocks
getMacroCharMap(c) ==
  IF c \in DOMAIN microspace_char_map
  THEN microspace_char_map[c]
  ELSE << <<c, c, c>>, <<c, c, c>>, <<c, c, c>> >>

\* one template line as its three macro rows, each followed by eol
MacroLine(line) ==
  concat([i \in 1..3 |->
            concat([k \in 1..Len(line) |-> getMacroCharMap(line[k])[i]])
              \o <<eol>>])

\* one line of the framed template
FramedLine(line, max_len, pad) ==
  LET l == str_rstrip(line)
  IN  str_repeat(" ", pad) \o l \o str_repeat(" ", pad + max_len - Len(l))
        \o <<eol>>

transform(template, cfg) ==
  LET t1 == IF cfg.use_microspace
            THEN LET ls == str_split(template, eol)
                 IN  concat([k \in 1..Len(ls) |-> MacroLine(ls[k])])
            ELSE template
      lines == str_split(t1, eol)
      max_len == MaxLineLen(lines)
      top_bottom == str_repeat(" ", max_len + 2 * cfg.pad) \o <<eol>>
      frame == concat([i \in 1..cfg.pad |-> top_bottom])
  IN  frame
        \o concat([k \in 1..Len(lines) |-> FramedLine(lines[k], max_len, cfg.pad)])
        \o frame

\* the board parseTemplate builds (before createMaze)
parseTemplate(template, cfg) ==
  LET t1 == transform(template, cfg)
      t2 == str_replace(t1, <<"\r", "\n">>, <<eol>>)
      t3 == str_replace(t2, <<"\r">>, <<eol>>)
  IN  str_split(t3, eol)

\* ------------------------------------------------------------------------
\* Grid
\* ------------------------------------------------------------------------

inBounds(b, x, y) ==
  y >= 0 /\ y < Len(b) /\ x >= 0 /\ x < Len(b[y + 1])

\* a variant of get that takes a negative column from the end of the row, as
\* the indexing of a list does
getWrapped(b, x, y) ==
  IF y >= 0 /\ y < Len(b) /\ x < Len(b[y + 1]) /\ x >= -Len(b[y + 1])
  THEN b[y + 1][(x % Len(b[y + 1])) + 1]
  ELSE ""

get(b, x, y) == IF inBounds(b, x, y) THEN b[y + 1][x + 1] ELSE ""

\* set on an in-bounds cell (out of bounds it raises: see SetRaises)
set(b, x, y, value) == [b EXCEPT ![y + 1][x + 1] = value]

SetRaises(b, x, y) == ~inBounds(b, x, y)

getMacroCharTopLeftPos(x, y, pad) ==
  << pad + ((x - pad) \div 3) * 3, pad + ((y - pad) \div 3) * 3 >>

\* ------------------------------------------------------------------------
\* Region fill (fillPoints)
\* ------------------------------------------------------------------------

\* the deltas one fill call scans along
FillDeltas(find, cfg) ==
  IF cfg.scan_diagonal /\ find \in walls_diagonal THEN zdeltas ELSE deltas

\* the position a replaced wall cell is counted under for the length cap
WallPos(x, y, cfg) ==
  IF cfg.use_microspace THEN getMacroCharTopLeftPos(x, y, cfg.pad) ELSE <<x, y>>

\* the state of one fill call: the board, the returned list (data), the
\* cells replaced in the current pass (this_scan), the counted wall positions
\* (walls), whether the cap ended the call (stop), whether set raised,
\* whether the while loop was still running when the model stopped unrolling
\* it (open), and the warnings printed (warned)
FillState(b, data) ==
  [board |-> b, data |-> data, this_scan |-> <<>>, walls |-> <<>>,
   stop |-> FALSE, raised |-> FALSE, open |-> FALSE, warned |-> <<>>]

\* the inner while loop: one straight run from (x2,y2) along d; returns the
\* fill state and the position the run ended at
RECURSIVE FillRun(_, _, _, _, _, _, _)
FillRun(st, x2, y2, d, find, replace, cfg) ==
  LET c == get(st.board, x2, y2)
  IN  IF c # find THEN [st |-> st, x |-> x2, y |-> y2]
      ELSE IF SetRaises(st.board, x2, y2)
      THEN [st |-> [st EXCEPT !.raised = TRUE, !.stop = TRUE], x |-> x2, y |-> y2]
      ELSE LET counted == cfg.length # -1 /\ c \in walls
               w == WallPos(x2, y2, cfg)
               fresh == counted /\ ~InSeq(w, st.walls)
               walls1 == IF fresh THEN Append(st.walls, w) ELSE st.walls
               full == fresh /\ Len(walls1) >= cfg.length
               st1 == [st EXCEPT !.board = set(st.board, x2, y2, replace),
                                 !.data = Append(@, <<x2, y2>>),
                                 !.this_scan = Append(@, <<x2, y2>>),
                                 !.walls = walls1,
                                 !.stop = full]
           IN  IF full THEN [st |-> st1, x |-> x2, y |-> y2]
               ELSE FillRun(st1, x2 + d[1], y2 + d[2], d, find, replace, cfg)

\* the loop over the deltas for one frontier point: (x2,y2) is set to the
\* point before the loop and carried from one delta to the next
RECURSIVE FillPoint(_, _, _, _, _, _, _, _)
FillPoint(st, x2, y2, ds, i, find, replace, cfg) ==
  IF i > Len(ds) \/ st.stop THEN st
  ELSE LET r == FillRun(st, x2, y2, ds[i], find, replace, cfg)
       IN  FillPoint(r.st, r.x, r.y, ds, i + 1, find, replace, cfg)

\* the loop over the points lo..hi of the current frontier, in order (the
\* range is halved so that the evaluation stays shallow)
RECURSIVE FillPass(_, _, _, _, _, _, _)
FillPass(st, points, lo, hi, find, replace, cfg) ==
  IF lo > hi \/ st.stop THEN st
  ELSE IF lo = hi
  THEN FillPoint(st, points[lo][1], points[lo][2], FillDeltas(find, cfg), 1,
                 find, replace, cfg)
  ELSE LET mid == (lo + hi) \div 2
       IN  FillPass(FillPass(st, points, lo, mid, find, replace, cfg),
                    points, mid + 1, hi, find, replace, cfg)

\* a variant of the next frontier that looks along the first delta only
NextScanFirst(st, ds) ==
  LET Cand(k) == <<st.this_scan[k][1] + ds[1][1], st.this_scan[k][2] + ds[1][2]>>
      Keep(k) == LET q == Cand(k)
                 IN  /\ inBounds(st.board, q[1], q[2])
                     /\ ~InSeq(q, st.data)
                     /\ \A j \in 1..(k - 1) : Cand(j) # q
      kept == SelectSeq([k \in 1..Len(st.this_scan) |-> k], Keep)
  IN  [i \in 1..Len(kept) |-> Cand(kept[i])]

\* the next frontier: the in-bounds neighbours of the cells replaced in this
\* pass, in the order of the two loops (cell, then delta), that are neither
\* queued already nor in data
NextScan(st, ds) ==
  LET n == Len(st.this_scan) * Len(ds)
      Cand(k) == LET p == st.this_scan[((k - 1) \div Len(ds)) + 1]
                     d == ds[((k - 1) % Len(ds)) + 1]
                 IN  <<p[1] + d[1], p[2] + d[2]>>
      Keep(k) == LET q == Cand(k)
                 IN  /\ inBounds(st.board, q[1], q[2])
                     /\ ~InSeq(q, st.data)
                     /\ \A j \in 1..(k - 1) : Cand(j) # q
      kept == SelectSeq([k \in 1..n |-> k], Keep)
  IN  [i \in 1..Len(kept) |-> Cand(kept[i])]

\* one turn of the while loop: the frontier is processed and the next one
\* computed; fs is [st, next_scan]
FillTurn(fs, find, replace, cfg) ==
  IF Len(fs.next_scan) = 0 \/ fs.st.stop THEN fs
  ELSE LET st1 == FillPass([fs.st EXCEPT !.this_scan = <<>>], fs.next_scan, 1,
                           Len(fs.next_scan), find, replace, cfg)
       IN  [st |-> st1,
            next_scan |-> IF st1.stop THEN <<>>
                          ELSE NextScan(st1, FillDeltas(find, cfg))]

\* while len(next_scan) > 0, unrolled n turns (the count is halved to stay
\* shallow); fillPoints records whether the loop had ended by then
RECURSIVE FillLoop(_, _, _, _, _)
FillLoop(fs, n, find, replace, cfg) ==
  IF n <= 0 \/ Len(fs.next_scan) = 0 \/ fs.st.stop THEN fs
  ELSE IF n = 1 THEN FillTurn(fs, find, replace, cfg)
  ELSE FillLoop(FillLoop(fs, n \div 2, find, replace, cfg), n - (n \div 2),
                find, replace, cfg)

\* the number of cells of the board
RECURSIVE CellCount(_)
CellCount(b) == IF b = <<>> THEN 0 ELSE Len(Head(b)) + CellCount(Tail(b))

\* the fill state when the unrolled loop stops: open tells whether the
\* while loop of the code would still be running
FillEnd(fs) == [fs.st EXCEPT !.open = Len(fs.next_scan) > 0 /\ ~fs.st.stop]

\* the strings of two characters the model passes to fillPoints
TwoChars == {"/ ", "''"}

\* len(s) of the strings the model passes to fillPoints
len(s) == IF s = "" THEN 0 ELSE IF s \in TwoChars THEN 2 ELSE 1

\* the warnings fillPoints prints before it fills
Warnings(find, replace) ==
  (IF len(find) # len(replace) THEN <<"lengths differ">> ELSE <<>>)
    \o (IF find = replace THEN <<"same find == replace">> ELSE <<>>)

\* fillPoints(points, find, replace, data): the final fill state; the loop
\* is unrolled one turn more than the board has cells
fillPoints(b, points, find, replace, data, cfg) ==
  IF find = replace
  THEN [FillState(b, data) EXCEPT !.warned = Warnings(find, replace)]
  ELSE FillEnd(FillLoop([st |-> [FillState(b, data) EXCEPT
                                   !.warned = Warnings(find, replace)],
                         next_scan |-> points],
                        CellCount(b) + 1, find, replace, cfg))

\* a variant of fill that writes the visited marker whatever replace is
fillVisited(b, x, y, find, replace, cfg) ==
  fillPoints(b, << <<x, y>> >>, find, visited, <<>>, cfg)

\* fill(x, y, find, replace): one seed, a fresh data list
fill(b, x, y, find, replace, cfg) ==
  fillPoints(b, << <<x, y>> >>, find, replace, <<>>, cfg)

\* ------------------------------------------------------------------------
\* Pattern matcher and block replace
\* ------------------------------------------------------------------------

\* find/replace patterns are rectangular: sequences of equally long rows
hasPatternAt(b, find, x, y) ==
  \A j \in 0..(Len(find) - 1) : \A i \in 0..(Len(find[1]) - 1) :
    get(b, x + i, y + j) = find[j + 1][i + 1]

\* the scan of findPattern: row-major over len(board) rows of len(board[0])
\* columns, from row y on, the first row starting at column x
FindFrom(b, find, x, y) ==
  LET h == Len(b)
      w == Len(b[1])
      Hit(p) == p[2] >= y /\ (p[2] # y \/ p[1] >= x)
                  /\ hasPatternAt(b, find, p[1], p[2])
  IN  SelectSeq([k \in 1..(h * w) |-> <<(k - 1) % w, (k - 1) \div w>>], Hit)

findPattern(b, find, x, y) ==
  IF Len(find) = 0 THEN <<>>
  ELSE IF Len(find[1]) = 0 THEN <<>>
  ELSE FindFrom(b, find, x, y)

findChar(b, c) ==
  concat([k \in 1..Len(b) |->
            concat([i \in 1..Len(b[k]) |->
                      IF b[k][i] = c THEN << <<i - 1, k - 1>> >> ELSE <<>>])])

\* setBlock writes the pattern cell by cell, row-major; a cell out of bounds
\* raises and ends the call.  r is [board, raised].
RECURSIVE SetBlockFrom(_, _, _, _, _)
SetBlockFrom(r, x, y, pattern, k) ==
  LET w == Len(pattern[1])
  IN  IF r.raised \/ k >= Len(pattern) * w THEN r
      ELSE LET j == k \div w
               i == k % w
           IN  IF SetRaises(r.board, x + i, y + j)
               THEN [r EXCEPT !.raised = TRUE]
               ELSE SetBlockFrom(
                      [r EXCEPT !.board = set(r.board, x + i, y + j,
                                              pattern[j + 1][i + 1])],
                      x, y, pattern, k + 1)

setBlock(r, x, y, pattern) == SetBlockFrom(r, x, y, pattern, 0)

RECURSIVE ReplaceAt(_, _, _, _)
ReplaceAt(r, points, k, block) ==
  IF r.raised \/ k > Len(points) THEN r
  ELSE ReplaceAt(setBlock(r, points[k][1], points[k][2], block), points, k + 1,
                 block)

\* the list cut after its first element
FirstOnly(xs) == IF Len(xs) = 0 THEN xs ELSE <<xs[1]>>

\* a variant of replace that rewrites the first match only
replaceFirst(b, find, block) ==
  ReplaceAt([board |-> b, raised |-> FALSE],
            FirstOnly(findPattern(b, find, 0, 0)), 1, block)

\* replace(find, replace): all matches are found first, then rewritten
replace(b, find, block) ==
  ReplaceAt([board |-> b, raised |-> FALSE], findPattern(b, find, 0, 0), 1, block)

\* the find/replace rules of imagePreProcess, in order
PreProcessPatterns ==
  << << << <<"_">>, <<"|">> >>, << <<"+">>, <<"|">> >> >>,
     << << <<"_", " ", "|", " ", "_">> >>, << <<"_", "+", "+", "+", "_">> >> >>,
     << << <<"|", " ", "_">> >>, << <<"+", "+", "_">> >> >>,
     << << <<"_", " ", "|">> >>, << <<"_", "+", "+">> >> >>,
     << << <<"-", " ", "|">> >>, << <<"-", "+", "+">> >> >>,
     << << <<"|", " ", "-">> >>, << <<"+", "+", "-">> >> >>,
     << << <<"/", " ", " ", "_", "_", "_">> >>,
        << <<"+", "+", "+", "_", "_", "_">> >> >>,
     << << <<"_", "_", "_", " ", " ", "\\">> >>,
        << <<"_", "_", "_", "+", "+", "+">> >> >>,
     << << <<"\\", "/">> >>, << <<"+", "+">> >> >>,
     << << <<"/", "\\">> >>, << <<"+", "+">> >> >>,
     << << <<"\\">>, <<"/">> >>, << <<"+">>, <<"+">> >> >>,
     << << <<"/">>, <<"\\">> >>, << <<"+">>, <<"+">> >> >>,
     << << <<"\\", " ", "|">> >>, << <<"\\", "+", "+">> >> >>,
     << << <<"|", " ", "/">> >>, << <<"+", "+", "/">> >> >>,
     << << <<"/", " ", "|">> >>, << <<"/", "+", "+">> >> >>,
     << << <<"|", " ", "\\">> >>, << <<"+", "+", "\\">> >> >> >>

\* the rules of imagePostProcess
PostProcessPatterns(cfg) ==
  IF cfg.close_implied_wall
  THEN << << << <<visited>>, <<"+">> >>, << <<"_">>, <<"+">> >> >> >>
  ELSE <<>>

RECURSIVE ApplyPatterns(_, _, _)
ApplyPatterns(b, patterns, k) ==
  IF k > Len(patterns) THEN b
  ELSE ApplyPatterns(replace(b, patterns[k][1], patterns[k][2]).board,
                     patterns, k + 1)

imagePreProcess(b) == ApplyPatterns(b, PreProcessPatterns, 1)

imagePostProcess(b, cfg) == ApplyPatterns(b, PostProcessPatterns(cfg), 1)

\* ------------------------------------------------------------------------
\* Outside/avoid initializer
\* ------------------------------------------------------------------------

\* the board after one more fill f of initOutside; r is [board, open]
Filled(r, f) == [board |-> f.board, open |-> r.open \/ f.open]

\* one fill of initOutside on the board of r
SealFill(r, x, y, find, repl, cfg) == Filled(r, fill(r.board, x, y, find, repl, cfg))

\* the loop over the avoid points without the second fill: the avoid region
\* becomes unvisited and stays so
RECURSIVE SealAvoidOpen(_, _, _, _)
SealAvoidOpen(r, points, k, cfg) ==
  IF k > Len(points) THEN r
  ELSE SealAvoidOpen(SealFill(r, points[k][1], points[k][2], avoid, unvisited, cfg),
                     points, k + 1, cfg)

\* the loop over the avoid points found before the loop: the avoid region
\* becomes unvisited, then visited
RECURSIVE SealAvoid(_, _, _, _)
SealAvoid(r, points, k, cfg) ==
  IF k > Len(points) THEN r
  ELSE SealAvoid(SealFill(SealFill(r, points[k][1], points[k][2], avoid,
                                   unvisited, cfg),
                          points[k][1], points[k][2], unvisited, visited, cfg),
                 points, k + 1, cfg)

\* the avoid part of initOutside
SealAll(r, cfg) == SealAvoid(r, findChar(r.board, avoid), 1, cfg)

\* initOutside: the board it leaves, and whether a fill of it was left open
initOutside(b, cfg) ==
  SealAll(IF cfg.pad > 0
          THEN SealFill([board |-> b, open |-> FALSE], 0, 0, unvisited, visited, cfg)
          ELSE [board |-> b, open |-> FALSE],
          cfg)

\* ------------------------------------------------------------------------
\* Carving walk
\* ------------------------------------------------------------------------

\* every order shuffle can leave a list in
Shuffles(xs) ==
  LET n == Len(xs)
  IN  {[i \in 1..n |-> xs[f[i]]] :
         f \in {g \in [1..n -> 1..n] : \A a, c \in 1..n : a # c => g[a] # g[c]}}

\* self.bias: a dict in insertion order, here a sequence of [d, n] entries;
\* min and max with key=self.bias.get return the first extreme key
BiasMin(bias) ==
  bias[CHOOSE i \in 1..Len(bias) :
         /\ \A j \in 1..Len(bias) : bias[j].n >= bias[i].n
         /\ \A j \in 1..(i - 1) : bias[j].n > bias[i].n].d

BiasMax(bias) ==
  bias[CHOOSE i \in 1..Len(bias) :
         /\ \A j \in 1..Len(bias) : bias[j].n <= bias[i].n
         /\ \A j \in 1..(i - 1) : bias[j].n < bias[i].n].d

\* the bias correction getDeltas applies to one shuffled copy of the deltas
BiasCorrect(ds, bias) ==
  IF Len(bias) = 0 THEN ds
  ELSE LET rare == BiasMin(bias)
           notrare == BiasMax(bias)
           d1 == <<rare>> \o SeqRemove(ds, rare)
           d2 == IF notrare # rare
                 THEN Append(SeqRemove(d1, notrare), notrare)
                 ELSE d1
       IN  SeqRemove(d2, notrare)

\* the lists getDeltas can return
getDeltas(bias) == {BiasCorrect(ds, bias) : ds \in Shuffles(deltas)}

\* self.bias[delta] += 1, a new key entering at the end
BiasAdd(bias, d) ==
  IF \E i \in 1..Len(bias) : bias[i].d = d
  THEN [i \in 1..Len(bias) |->
          IF bias[i].d = d THEN [bias[i] EXCEPT !.n = @ + 1] ELSE bias[i]]
  ELSE Append(bias, [d |-> d, n |-> 1])

\* the look-ahead loop of walk from (x2,y2) along d: returns the last
\* character scanned, where the scan stopped and the wall cells it passed
RECURSIVE ProbeFrom(_, _, _, _, _, _, _, _)
ProbeFrom(b, x2, y2, d, foundwall, wall, wallpts, cfg) ==
  LET x3 == x2 + d[1]
      y3 == y2 + d[2]
      scan == get(b, x3, y3)
      stop == [scan |-> scan, x |-> x3, y |-> y3, walls |-> wallpts]
  IN  IF scan = "" THEN stop
      ELSE IF scan \in corners THEN stop
      ELSE IF scan \in walls
      THEN LET wallpts1 == Append(wallpts, <<x3, y3>>)
           IN  IF (foundwall /\ wall # scan) \/ Len(wallpts1) > cfg.thickness
               THEN [stop EXCEPT !.walls = wallpts1]
               ELSE ProbeFrom(b, x3, y3, d, TRUE, scan, wallpts1, cfg)
      ELSE IF foundwall THEN stop
      ELSE ProbeFrom(b, x3, y3, d, FALSE, "", wallpts, cfg)

\* a variant of the look-ahead that takes a visited cell behind the wall
\* for an unvisited one
ProbeVisited(b, x, y, d, cfg) ==
  [ProbeFrom(b, x, y, d, FALSE, "", <<>>, cfg) EXCEPT
     !.scan = IF @ = visited THEN unvisited ELSE @]

Probe(b, x, y, d, cfg) == ProbeFrom(b, x, y, d, FALSE, "", <<>>, cfg)

\* the walk's board and walls_changed after the fill f of one wall cell
Knocked(r, f) ==
  [board |-> f.board, walls_changed |-> r.walls_changed \o f.data,
   open |-> r.open \/ f.open, warned |-> r.warned \o f.warned]

\* knock down the wall: one fill per wall cell of the probe, each replacing
\* the character found there by unvisited; r is [board, walls_changed, open,
\* warned]
RECURSIVE KnockDown(_, _, _, _)
KnockDown(r, wallpts, k, cfg) ==
  IF k > Len(wallpts) THEN r
  ELSE KnockDown(Knocked(r, fill(r.board, wallpts[k][1], wallpts[k][2],
                                 get(r.board, wallpts[k][1], wallpts[k][2]),
                                 unvisited, cfg)),
                 wallpts, k + 1, cfg)

\* ------------------------------------------------------------------------
\* Render
\* ------------------------------------------------------------------------

\* the board as text: every row followed by eol2
BoardText(b) == concat([k \in 1..Len(b) |-> b[k] \o <<eol2>>])

\* getMacroCharIdPos: the centre of the macro cell, or its bottom centre
\* when that cell holds an underscore
getMacroCharIdPos(b, x, y, pad) ==
  LET p0 == getMacroCharTopLeftPos(x, y, pad)
  IN  IF get(b, p0[1] + 1, p0[2] + 2) = "_"
      THEN <<p0[1] + 1, p0[2] + 2>>
      ELSE <<p0[1] + 1, p0[2] + 1>>

getMacroCharValue(b, x, y, pad) ==
  IF ~inBounds(b, x, y) THEN ""
  ELSE LET p == getMacroCharIdPos(b, x, y, pad)
           c0 == get(b, p[1], p[2])
       IN  IF c0 \in {visited, unvisited} THEN space ELSE c0

\* inverse_transform of the text s (the board b is read for macro values)
inverse_transform(s, b, cfg) ==
  IF cfg.use_microspace
  THEN LET lines == str_split(s, eol2)
       IN  concat([k \in 1..Len(lines) |->
                     IF (k - 1) % 3 = 0
                     THEN concat([i \in 1..Len(lines[k]) |->
                                    IF (i - 1) % 3 = 0
                                    THEN LET cm == getMacroCharValue(b, i - 1, k - 1,
                                                                     cfg.pad)
                                         IN  IF cm = "" THEN <<>> ELSE <<cm>>
                                    ELSE <<>>]) \o <<eol2>>
                     ELSE <<>>])
  ELSE s

\* toString(raw)
toString(b, raw, cfg) ==
  LET s0 == BoardText(b)
      s1 == IF raw THEN s0
            ELSE inverse_transform(str_replace(s0, <<visited>>, <<space>>), b, cfg)
  IN  IF cfg.dot_last_underscore
      THEN str_replace(str_replace(s1, <<"_", " ">>, <<"_", ".">>),
                       <<" ", "_">>, <<".", "_">>)
      ELSE s1

\* ------------------------------------------------------------------------
\* Macro-cell update (setMacroChar)
\* ------------------------------------------------------------------------

\* the position list index i denotes in a list of n elements: a negative index
\* counts from the end; -1 stands for the IndexError of an index out of range
ListIndex(n, i) == IF i >= n \/ i < -n THEN -1 ELSE i % n

\* self.board[y4][x4] = value: r is [board, changed, raised]
MacroWrite(r, x4, y4, value) ==
  LET row == ListIndex(Len(r.board), y4)
  IN  IF row = -1 THEN [r EXCEPT !.raised = TRUE]
      ELSE IF ListIndex(Len(r.board[row + 1]), x4) = -1
      THEN [r EXCEPT !.raised = TRUE]
      ELSE [r EXCEPT !.board[row + 1][ListIndex(Len(r.board[row + 1]), x4) + 1] = value,
                     !.changed = Append(@, <<x4, y4>>)]

\* the two loops over the old character's mask, from offset k on: every
\* offset that is not a blank of the mask is overwritten
RECURSIVE MacroOverwrite(_, _, _, _, _, _)
MacroOverwrite(r, x2, y2, charmap_old, value, k) ==
  IF r.raised \/ k >= 9 THEN r
  ELSE MacroOverwrite(
         IF charmap_old[(k \div 3) + 1][(k % 3) + 1] # " "
         THEN MacroWrite(r, x2 + (k % 3), y2 + (k \div 3), value)
         ELSE r,
         x2, y2, charmap_old, value, k + 1)

\* the part of setMacroChar after the whitespace test: the macro cell at
\* (x2,y2) has the character old_id at its centre
MacroUpdate(r, x, y, x2, y2, old_id, value) ==
  IF old_id = value THEN r
  ELSE IF old_id = "" THEN [r EXCEPT !.raised = TRUE]
  ELSE IF getMacroCharMap(old_id)[y - y2 + 1][x - x2 + 1] # " "
  THEN MacroOverwrite(r, x2, y2, getMacroCharMap(old_id), value, 0)
  ELSE r

\* setMacroChar(x, y, value): the board, the list of changed points returned
\* and whether the call raised
setMacroChar(b, x, y, value, cfg) ==
  IF ~inBounds(b, x, y) THEN [board |-> b, changed |-> <<>>, raised |-> TRUE]
  ELSE IF get(b, x, y) = value THEN [board |-> b, changed |-> <<>>, raised |-> FALSE]
  ELSE IF get(b, x, y) \in {visited, unvisited}
  THEN [board |-> set(b, x, y, value), changed |-> << <<x, y>> >>, raised |-> FALSE]
  ELSE MacroUpdate([board |-> b, changed |-> <<>>, raised |-> FALSE], x, y,
                   getMacroCharTopLeftPos(x, y, cfg.pad)[1],
                   getMacroCharTopLeftPos(x, y, cfg.pad)[2],
                   get(b, getMacroCharTopLeftPos(x, y, cfg.pad)[1] + 1,
                       getMacroCharTopLeftPos(x, y, cfg.pad)[2] + 1),
                   value)

\* ------------------------------------------------------------------------
\* Inputs: templates and configurations
\* ------------------------------------------------------------------------

\* the lines of a template joined by a line separator
RECURSIVE JoinLines(_, _)
JoinLines(lines, sep) ==
  IF Len(lines) = 0 THEN <<>>
  ELSE IF Len(lines) = 1 THEN lines[1]
  ELSE lines[1] \o sep \o JoinLines(Tail(lines), sep)

\* three one-cell rooms in a row, delimited by + corners
RowOfRooms ==
  << <<"+", "-", "+", "-", "+", "-", "+">>,
     <<"|", " ", "|", " ", "|", " ", "|">>,
     <<"+", "-", "+", "-", "+", "-", "+">> >>

\* an avoid-marked cell between a letter and the wall of the next room
AvoidRooms ==
  << <<"+", "-", "+", "-", "+", "-", "+">>,
     <<"|", " ", "a", "~", "|", " ", "|">>,
     <<"+", "-", "+", "-", "+", "-", "+">> >>

\* a room of three cells with an avoid marker, and a room beside it
SealedRoom ==
  << <<"+", "-", "-", "-", "+", "-", "+">>,
     <<"|", "~", " ", " ", "|", " ", "|">>,
     <<"+", "-", "-", "-", "+", "-", "+">> >>

\* two rooms with a wall of two cells between them
ThickWall ==
  << <<"+", "-", "+", "+", "-", "+">>,
     <<"|", " ", "|", "|", " ", "|">>,
     <<"+", "-", "+", "+", "-", "+">> >>

\* two rooms with a corner between them
CornerWall ==
  << <<"+", "-", "+", "-", "+">>,
     <<"|", " ", "+", " ", "|">>,
     <<"+", "-", "+", "-", "+">> >>

\* one closed room
OneRoom ==
  << <<"+", "-", "+">>,
     <<"+", " ", "+">>,
     <<"+", "-", "+">> >>

\* two lines of text
TwoLines ==
  << <<"a">>,
     <<"b">> >>

\* a microspace template: two rows of corner, dash, corner
MicroRoom ==
  << <<"+", "-", "+">>,
     <<"+", "-", "+">> >>

\* two lines of text with two empty lines between them
SpacedLines ==
  << <<"a">>, <<>>, <<>>, <<"b">> >>

\* the configuration mazeify.__init__ sets, for a template text
DefaultConfig(text) ==
  [template |-> text, pad |-> 1, thickness |-> 1, length |-> -1,
   use_microspace |-> FALSE, scan_diagonal |-> TRUE, scan_wall_space |-> TRUE,
   close_implied_wall |-> TRUE, dot_last_underscore |-> FALSE,
   create_maze |-> TRUE]

\* the largest whitespace frame tried
MaxPad == 2

\* the parses the model runs
Scenarios ==
  {DefaultConfig(JoinLines(RowOfRooms, <<"\n">>)),
   DefaultConfig(JoinLines(AvoidRooms, <<"\n">>)),
   DefaultConfig(JoinLines(SealedRoom, <<"\n">>)),
   DefaultConfig(JoinLines(TwoLines, <<"\r">>)),
   DefaultConfig(JoinLines(SpacedLines, <<"\r">>)),
   [DefaultConfig(<<>>) EXCEPT !.pad = 0],
   [DefaultConfig(JoinLines(MicroRoom, <<"\n">>)) EXCEPT !.use_microspace = TRUE]}
    \cup {[DefaultConfig(JoinLines(OneRoom, <<"\n">>)) EXCEPT !.pad = p] :
            p \in 1..MaxPad}

\* ------------------------------------------------------------------------
\* State
\* ------------------------------------------------------------------------

VARIABLES
  cfg,        \* the configuration and template of this parse
  board,      \* self.board
  pc,         \* where parseTemplate/createMaze/toString is
  cm,         \* createMaze's locals: h, w, xstart, ystart, and the scan position
  stack,      \* the active walk calls, the innermost last
  data,       \* the walk's processed list (shared by one top-level walk)
  bias,       \* self.bias
  out,        \* the text toString returned
  board0,     \* history: the board when carving starts (after initOutside)
  processed,  \* history: the coordinates the walk processed in this parse
  reprocessed,\* history: the coordinates the walk processed more than once
  claimed,    \* history: the cells carving turned from unvisited to visited
  reclaimed,  \* history: the cells turned from unvisited to visited twice
  opened,     \* history: the wall cells carving knocked down
  knocks,     \* history: the number of probes that knocked a wall down
  maxdepth,   \* history: the deepest nesting of walk calls so far
  fill_open,  \* history: a fill call's loop was cut short by the unrolling
  warned      \* the warnings fillPoints has printed

vars == <<cfg, board, pc, cm, stack, data, bias, out, board0, processed,
          reprocessed, claimed, reclaimed, opened, knocks, maxdepth, fill_open,
          warned>>

hist == <<board0, processed, reprocessed, claimed, reclaimed, opened, knocks,
          maxdepth, fill_open, warned>>

\* the set of the elements of a list
SeqSet(xs) == {xs[i] : i \in 1..Len(xs)}

NoCm == [h |-> 0, w |-> 0, xstart |-> 0, ystart |-> 0, x |-> 0, y |-> 0]

\* the state of a new mazeify object, about to parse a template
Init ==
  /\ cfg \in Scenarios
  /\ board = << <<>> >>
  /\ pc = "parse"
  /\ cm = NoCm
  /\ stack = <<>>
  /\ data = <<>>
  /\ bias = <<>>
  /\ out = <<>>
  /\ board0 = <<>>
  /\ processed = {}
  /\ reprocessed = {}
  /\ claimed = {}
  /\ reclaimed = {}
  /\ opened = {}
  /\ knocks = 0
  /\ maxdepth = 0
  /\ fill_open = FALSE
  /\ warned = <<>>

\* ------------------------------------------------------------------------
\* Actions
\* ------------------------------------------------------------------------

\* parseTemplate up to the createMaze call
ParseTemplate ==
  /\ pc = "parse"
  /\ board' = parseTemplate(cfg.template, cfg)
  /\ pc' = IF cfg.create_maze
           THEN (IF cfg.use_microspace THEN "pre" ELSE "outside")
           ELSE "done"
  /\ UNCHANGED <<cfg, cm, stack, data, bias, out, hist>>

\* createMaze: imagePreProcess (microspace only)
ImagePreProcess ==
  /\ pc = "pre"
  /\ board' = imagePreProcess(board)
  /\ pc' = "outside"
  /\ UNCHANGED <<cfg, cm, stack, data, bias, out, hist>>

\* the board initOutside leaves becomes the board
Outside(r) ==
  /\ board' = r.board
  /\ board0' = r.board
  /\ fill_open' = (fill_open \/ r.open)

\* createMaze: initOutside
InitOutside ==
  /\ pc = "outside"
  /\ Outside(initOutside(board, cfg))
  /\ pc' = "start"
  /\ UNCHANGED <<cfg, cm, stack, data, bias, out, processed, reprocessed,
                 claimed, reclaimed, opened, knocks, maxdepth, warned>>

\* createMaze: the second randint draw raises ValueError when its range is
\* empty, which it is when the middle row of the board is empty
StartRaises ==
  /\ pc = "start"
  /\ LET h == Len(board) - 1
         w == Len(board[(h \div 2) + 1]) - 1
     IN  (3 * w) \div 4 < 0
  /\ pc' = "raised"
  /\ UNCHANGED <<cfg, board, cm, stack, data, bias, out, hist>>

\* createMaze: h, w and the two randint draws
ChooseStart ==
  /\ pc = "start"
  /\ LET h == Len(board) - 1
         w == Len(board[(h \div 2) + 1]) - 1
     IN  /\ (3 * w) \div 4 >= 0
         /\ \E ystart \in 0..((3 * h) \div 4), xstart \in 0..((3 * w) \div 4) :
              cm' = [h |-> h, w |-> w, xstart |-> xstart, ystart |-> ystart,
                     x |-> xstart, y |-> ystart]
  /\ pc' = "loop1"
  /\ UNCHANGED <<cfg, board, stack, data, bias, out, hist>>

\* the cells of the first loop at or after the scan position, in scan order,
\* that hold the unvisited character
Loop1Cells ==
  {p \in (cm.xstart..(cm.w - 1)) \X (cm.ystart..(cm.h - 1)) :
     /\ p[2] > cm.y \/ (p[2] = cm.y /\ p[1] >= cm.x)
     /\ get(board, p[1], p[2]) = unvisited}

\* the cells of the second loop (every row, every cell of the row)
Loop2Cells ==
  {p \in UNION {{<<i - 1, k - 1>> : i \in 1..Len(board[k])} : k \in 1..Len(board)} :
     /\ p[2] > cm.y \/ (p[2] = cm.y /\ p[1] >= cm.x)
     /\ get(board, p[1], p[2]) = unvisited}

\* the first cell of a set in row-major order
FirstCell(S) ==
  CHOOSE p \in S : \A q \in S : q[2] > p[2] \/ (q[2] = p[2] /\ q[1] >= p[1])

\* a new walk frame at (x,y) with the direction list getDeltas returned
Frame(x, y, ds) ==
  [x |-> x, y |-> y, deltas |-> ds, phase |-> "probe", dest |-> <<0, 0>>,
   changed |-> {}]

\* walk(x, y, 0, data) called by a createMaze loop on the next unvisited cell:
\* level 0 resets data and bias; the cell is appended and getDeltas drawn
TopWalk(p) ==
  /\ \E ds \in getDeltas(<<>>) : stack' = <<Frame(p[1], p[2], ds)>>
  /\ data' = <<p>>
  /\ bias' = <<>>
  /\ cm' = [cm EXCEPT !.x = p[1] + 1, !.y = p[2]]
  /\ processed' = processed \cup {p}
  /\ reprocessed' = IF p \in processed THEN reprocessed \cup {p} ELSE reprocessed
  /\ maxdepth' = IF maxdepth < 1 THEN 1 ELSE maxdepth
  /\ UNCHANGED <<cfg, board, pc, out, board0, claimed, reclaimed, opened, knocks,
                 fill_open, warned>>

Loop1Walk ==
  /\ pc = "loop1" /\ stack = <<>>
  /\ Loop1Cells # {}
  /\ TopWalk(FirstCell(Loop1Cells))

Loop1End ==
  /\ pc = "loop1" /\ stack = <<>>
  /\ Loop1Cells = {}
  /\ pc' = "loop2"
  /\ cm' = [cm EXCEPT !.xstart = 0, !.ystart = 0, !.x = 0, !.y = 0]
  /\ UNCHANGED <<cfg, board, stack, data, bias, out, hist>>

Loop2Walk ==
  /\ pc = "loop2" /\ stack = <<>>
  /\ Loop2Cells # {}
  /\ TopWalk(FirstCell(Loop2Cells))

Loop2End ==
  /\ pc = "loop2" /\ stack = <<>>
  /\ Loop2Cells = {}
  /\ pc' = IF cfg.use_microspace THEN "post" ELSE "done"
  /\ cm' = NoCm
  /\ data' = <<>>
  /\ bias' = <<>>
  /\ UNCHANGED <<cfg, board, stack, out, hist>>

top == stack[Len(stack)]

SetTop(f) == [stack EXCEPT ![Len(stack)] = f]

\* walk: the next direction of the list leads to no unvisited cell
WalkDeadEnd ==
  /\ stack # <<>> /\ top.phase = "probe" /\ top.changed = {} /\ top.deltas # <<>>
  /\ Probe(board, top.x, top.y, Head(top.deltas), cfg).scan # unvisited
  /\ stack' = SetTop([top EXCEPT !.deltas = Tail(@)])
  /\ UNCHANGED <<cfg, board, pc, cm, data, bias, out, hist>>

\* the walls of the probe pr along d are knocked down, leaving k
KnockedDown(d, pr, k) ==
  /\ bias' = BiasAdd(bias, d)
  /\ board' = k.board
  /\ opened' = opened \cup SeqSet(k.walls_changed)
  /\ fill_open' = (fill_open \/ k.open)
  /\ warned' = warned \o k.warned
  /\ stack' = SetTop([top EXCEPT !.deltas = Tail(@), !.phase = "claim",
                                 !.dest = <<pr.x, pr.y>>])

\* the probe pr along d has landed on an unvisited cell
Paydirt(d, pr) ==
  /\ pr.scan = unvisited
  /\ KnockedDown(d, pr,
                 KnockDown([board |-> board, walls_changed |-> <<>>, open |-> FALSE,
                            warned |-> <<>>],
                           pr.walls, 1, cfg))

\* walk: the probe lands on an unvisited cell: the direction is counted in
\* bias and every wall cell of the probe is knocked down
WalkKnock ==
  /\ stack # <<>> /\ top.phase = "probe" /\ top.changed = {} /\ top.deltas # <<>>
  /\ Paydirt(Head(top.deltas), Probe(board, top.x, top.y, Head(top.deltas), cfg))
  /\ knocks' = knocks + 1
  /\ UNCHANGED <<cfg, pc, cm, data, out, board0, processed, reprocessed,
                 claimed, reclaimed, maxdepth>>

\* the cells f.data of the claiming fill f are claimed
Claimed(f) ==
  /\ claimed' = claimed \cup SeqSet(f.data)
  /\ reclaimed' = reclaimed \cup (claimed \cap SeqSet(f.data))
  /\ fill_open' = (fill_open \/ f.open)
  /\ stack' = SetTop([top EXCEPT !.phase = "probe",
                                 !.changed = SeqSet(f.data) \ {<<top.x, top.y>>}])

\* the claiming fill f leaves its board
Marked(f) == board' = f.board /\ Claimed(f)

\* a variant of the claim that leaves the room unmarked on the board
WalkClaimKeep ==
  /\ stack # <<>> /\ top.phase = "claim"
  /\ Claimed(fill(board, top.dest[1], top.dest[2], unvisited, visited, cfg))
  /\ UNCHANGED <<cfg, board, pc, cm, data, bias, out, board0, processed,
                 reprocessed, opened, knocks, maxdepth, warned>>

\* walk: the room the probe landed in is claimed; the claimed cells, without
\* the cell the walk stands on, are the ones to rescan from
WalkClaim ==
  /\ stack # <<>> /\ top.phase = "claim"
  /\ Marked(fill(board, top.dest[1], top.dest[2], unvisited, visited, cfg))
  /\ UNCHANGED <<cfg, pc, cm, data, bias, out, board0, processed, reprocessed,
                 opened, knocks, maxdepth, warned>>

\* a variant of the rescan loop that drops a claimed cell without calling
\* walk on it
WalkCallSkip ==
  /\ stack # <<>> /\ top.phase = "probe"
  /\ \E p \in top.changed : stack' = SetTop([top EXCEPT !.changed = @ \ {p}])
  /\ UNCHANGED <<cfg, board, pc, cm, data, bias, out, hist>>

\* walk: the loop over the shuffled changed list calls walk(x2, y2, level+1,
\* data) on a claimed cell: a cell already in data makes the call return at
\* once; any other cell is appended to data and its direction list drawn
WalkCall ==
  /\ stack # <<>> /\ top.phase = "probe"
  /\ \E p \in top.changed :
       IF InSeq(p, data)
       THEN /\ stack' = SetTop([top EXCEPT !.changed = @ \ {p}])
            /\ UNCHANGED <<data, processed, reprocessed>>
       ELSE /\ data' = Append(data, p)
            /\ processed' = processed \cup {p}
            /\ reprocessed' = IF p \in processed THEN reprocessed \cup {p}
                              ELSE reprocessed
            /\ \E ds \in getDeltas(bias) :
                 stack' = Append(SetTop([top EXCEPT !.changed = @ \ {p}]),
                                 Frame(p[1], p[2], ds))
  /\ maxdepth' = IF maxdepth < Len(stack) + 1 THEN Len(stack) + 1 ELSE maxdepth
  /\ UNCHANGED <<cfg, board, pc, cm, bias, out, board0, claimed, reclaimed,
                 opened, knocks, fill_open, warned>>

\* walk: every direction is done: the call returns
WalkReturn ==
  /\ stack # <<>> /\ top.phase = "probe" /\ top.changed = {} /\ top.deltas = <<>>
  /\ stack' = SubSeq(stack, 1, Len(stack) - 1)
  /\ UNCHANGED <<cfg, board, pc, cm, data, bias, out, hist>>

\* createMaze: imagePostProcess (microspace only)
ImagePostProcess ==
  /\ pc = "post"
  /\ board' = imagePostProcess(board, cfg)
  /\ pc' = "done"
  /\ UNCHANGED <<cfg, cm, stack, data, bias, out, hist>>

\* toString(): the non-raw rendering of the parsed template
RenderToString ==
  /\ pc = "done"
  /\ out' = toString(board, FALSE, cfg)
  /\ pc' = "rendered"
  /\ UNCHANGED <<cfg, board, cm, stack, data, bias, hist>>

Next ==
  \/ ParseTemplate
  \/ ImagePreProcess
  \/ InitOutside
  \/ StartRaises
  \/ ChooseStart
  \/ Loop1Walk
  \/ Loop1End
  \/ Loop2Walk
  \/ Loop2End
  \/ WalkDeadEnd
  \/ WalkKnock
  \/ WalkClaim
  \/ WalkCall
  \/ WalkReturn
  \/ ImagePostProcess
  \/ RenderToString

Spec == Init /\ [][Next]_vars

\* ------------------------------------------------------------------------
\* Carving under other settings: wall thickness and the wall-space rescan
\* ------------------------------------------------------------------------

\* the parses run: two rooms behind a wall of two cells, with a thickness of
\* one cell (too little to break the wall), with and without --no-wall-scan;
\* with a thickness of two cells under --no-wall-scan; with a thickness of
\* two cells, a length cap of one cell and no diagonal scan; and two rooms
\* with a corner between them
CarveScenarios ==
  {[DefaultConfig(JoinLines(ThickWall, <<"\n">>)) EXCEPT
      !.scan_wall_space = s] : s \in BOOLEAN}
    \cup {[DefaultConfig(JoinLines(ThickWall, <<"\n">>)) EXCEPT
             !.thickness = 2, !.scan_wall_space = FALSE],
          [DefaultConfig(JoinLines(ThickWall, <<"\n">>)) EXCEPT
             !.thickness = 2, !.length = 1, !.scan_diagonal = FALSE],
          DefaultConfig(JoinLines(CornerWall, <<"\n">>))}

InitCarve ==
  /\ cfg \in CarveScenarios
  /\ board = << <<>> >>
  /\ pc = "parse"
  /\ cm = NoCm
  /\ stack = <<>>
  /\ data = <<>>
  /\ bias = <<>>
  /\ out = <<>>
  /\ board0 = <<>>
  /\ processed = {}
  /\ reprocessed = {}
  /\ claimed = {}
  /\ reclaimed = {}
  /\ opened = {}
  /\ knocks = 0
  /\ maxdepth = 0
  /\ fill_open = FALSE
  /\ warned = <<>>

\* parseTemplate and createMaze outside microspace mode, then toString
NextCarve ==
  \/ ParseTemplate
  \/ InitOutside
  \/ ChooseStart
  \/ Loop1Walk
  \/ Loop1End
  \/ Loop2Walk
  \/ Loop2End
  \/ WalkDeadEnd
  \/ WalkKnock
  \/ WalkClaim
  \/ WalkCall
  \/ WalkReturn
  \/ RenderToString

SpecCarve == InitCarve /\ [][NextCarve]_vars

\* ------------------------------------------------------------------------
\* One fillPoints call on a small board
\* ------------------------------------------------------------------------

\* the width of the boards filled
FillW == 2

\* the largest length cap tried
MaxLength == 2

\* the characters of the boards filled: blank and a diagonal wall glyph
FillChars == {" ", "/"}

\* the boards filled: three rows of FillW cells
FillBoards == [1..3 -> [1..FillW -> FillChars]]

\* the cells of a board
Cells(b) == UNION {{<<i - 1, k - 1>> : i \in 1..Len(b[k])} : k \in 1..Len(b)}

\* one fillPoints call: the object's settings and the call's arguments
FillConfig(find, repl, points, length, micro, diag) ==
  [template |-> <<>>, pad |-> 1, thickness |-> 1, length |-> length,
   use_microspace |-> micro, scan_diagonal |-> diag, scan_wall_space |-> TRUE,
   close_implied_wall |-> TRUE, dot_last_underscore |-> FALSE,
   create_maze |-> FALSE, find |-> find, replace |-> repl, points |-> points]

\* p comes before q in the row-major order of the cells
Before(p, q) == p[2] < q[2] \/ (p[2] = q[2] /\ p[1] < q[1])

\* the seed lists of one cell, and those of two cells
OneSeed(b) == {<<p>> : p \in Cells(b)}

TwoSeeds(b) == {<<pq[1], pq[2]>> : pq \in {r \in Cells(b) \X Cells(b) : Before(r[1], r[2])}}

\* the calls tried on board b: blank filled with the visited marker from one
\* or two seeds, the wall glyph knocked down without a cap, and the wall
\* glyph knocked down from a cell that holds it under a cap of 0..MaxLength
FillCalls(b) ==
  {FillConfig(unvisited, visited, pts, -1, FALSE, TRUE) :
     pts \in OneSeed(b) \cup TwoSeeds(b)}
    \cup {FillConfig("/", unvisited, pts, -1, FALSE, dg) :
            pts \in OneSeed(b), dg \in BOOLEAN}
    \cup {FillConfig("/", unvisited, <<p>>, n, mi, TRUE) :
            p \in {q \in Cells(b) : get(b, q[1], q[2]) = "/"},
            n \in 0..MaxLength, mi \in BOOLEAN}

InitFill ==
  /\ board \in FillBoards
  /\ cfg \in FillCalls(board)
  /\ pc = "fill"
  /\ cm = NoCm
  /\ stack = <<>>
  /\ data = <<>>
  /\ bias = <<>>
  /\ out = <<>>
  /\ board0 = <<>>
  /\ processed = {}
  /\ reprocessed = {}
  /\ claimed = {}
  /\ reclaimed = {}
  /\ opened = {}
  /\ knocks = 0
  /\ maxdepth = 0
  /\ fill_open = FALSE
  /\ warned = <<>>

\* the call returns the fill state f, or raises the exception of set
Returned(f) ==
  /\ board' = f.board
  /\ data' = f.data
  /\ fill_open' = f.open
  /\ pc' = IF f.raised THEN "raised" ELSE "filled"
  /\ warned' = warned \o f.warned

\* fillPoints(points, find, replace, data=[]) on the board
FillCall ==
  /\ pc = "fill"
  /\ Returned(fillPoints(board, cfg.points, cfg.find, cfg.replace, <<>>, cfg))
  /\ board0' = board
  /\ UNCHANGED <<cfg, cm, stack, bias, out, processed, reprocessed, claimed,
                 reclaimed, opened, knocks, maxdepth>>

NextFill == FillCall

SpecFill == InitFill /\ [][NextFill]_vars

\* ------------------------------------------------------------------------
\* Parsing without carving: parseTemplate(template, create_maze=False), then
\* toString()
\* ------------------------------------------------------------------------

\* the longest template parsed
MaxTemplate == 3

\* the characters of the templates parsed: a letter, the two glyphs with a
\* mask of their own that the codec treats differently, the visited marker
\* and the two line-end characters
ParseChars == {"a", "_", "|", visited, "\n", "\r"}

\* the templates parsed: every text of up to MaxTemplate characters
ParseTemplates == UNION {[1..n -> ParseChars] : n \in 0..MaxTemplate}

\* the parses tried: plain and microspace, never carving
ParseConfigs ==
  {[DefaultConfig(t) EXCEPT !.use_microspace = m, !.create_maze = FALSE] :
     t \in ParseTemplates, m \in BOOLEAN}

InitParse ==
  /\ cfg \in ParseConfigs
  /\ board = << <<>> >>
  /\ pc = "parse"
  /\ cm = NoCm
  /\ stack = <<>>
  /\ data = <<>>
  /\ bias = <<>>
  /\ out = <<>>
  /\ board0 = <<>>
  /\ processed = {}
  /\ reprocessed = {}
  /\ claimed = {}
  /\ reclaimed = {}
  /\ opened = {}
  /\ knocks = 0
  /\ maxdepth = 0
  /\ fill_open = FALSE
  /\ warned = <<>>

NextParse ==
  \/ ParseTemplate
  \/ RenderToString

SpecParse == InitParse /\ [][NextParse]_vars

\* ------------------------------------------------------------------------
\* One call of the grid or of the pattern matcher on a small board
\* ------------------------------------------------------------------------

\* the longest row of the boards tried
GridW == 3

\* the characters of the boards tried
GridChars == {"a", "b"}

\* the rows tried: every row of up to GridW cells, the empty row included
GridRows == UNION {[1..n -> GridChars] : n \in 0..GridW}

\* the boards tried: one or two rows, which may differ in length
GridBoards == UNION {[1..h -> GridRows] : h \in 1..2}

\* the find patterns tried: no row, an empty row, one cell, two cells side by
\* side and two cells one above the other
FindPatterns ==
  {<<>>, << <<>> >>, << <<"a">> >>, << <<"a", "a">> >>, << <<"a", "b">> >>,
   << <<"a">>, <<"a">> >>, << <<"a">>, <<"b">> >>}

\* the find/replace pairs tried; as in every rule of the code the block has
\* the shape of the find pattern
ReplacePairs ==
  {<< << <<"a">> >>, << <<"b">> >> >>,
   << << <<"a", "a">> >>, << <<"a", "b">> >> >>,
   << << <<"a", "b">> >>, << <<"a", "a">> >> >>,
   << << <<"a">>, <<"a">> >>, << <<"b">>, <<"a">> >> >>,
   << <<>>, <<>> >>}

\* one call: the operation and its arguments
GridCall(op, x, y, value, find, block) ==
  [op |-> op, x |-> x, y |-> y, value |-> value, find |-> find, block |-> block]

\* the calls tried: get and set at every position from one cell before the
\* board to one cell after its longest row and its last row, findPattern from
\* the origin, and replace
GridCalls ==
  {GridCall(op, x, y, "c", <<>>, <<>>) :
     op \in {"get", "set"}, x \in -1..GridW, y \in -1..2}
    \cup {GridCall("findPattern", 0, 0, "", f, <<>>) : f \in FindPatterns}
    \cup {GridCall("replace", 0, 0, "", fr[1], fr[2]) : fr \in ReplacePairs}

InitGrid ==
  /\ board \in GridBoards
  /\ cfg \in GridCalls
  /\ pc = "call"
  /\ cm = NoCm
  /\ stack = <<>>
  /\ data = <<>>
  /\ bias = <<>>
  /\ out = <<>>
  /\ board0 = <<>>
  /\ processed = {}
  /\ reprocessed = {}
  /\ claimed = {}
  /\ reclaimed = {}
  /\ opened = {}
  /\ knocks = 0
  /\ maxdepth = 0
  /\ fill_open = FALSE
  /\ warned = <<>>

\* get(x, y): the character returned is kept in out (the empty text for the
\* empty sentinel)
GetCall ==
  /\ pc = "call" /\ cfg.op = "get"
  /\ out' = (IF get(board, cfg.x, cfg.y) = "" THEN <<>>
             ELSE <<get(board, cfg.x, cfg.y)>>)
  /\ board0' = board
  /\ pc' = "returned"
  /\ UNCHANGED <<cfg, board, cm, stack, data, bias, processed, reprocessed,
                 claimed, reclaimed, opened, knocks, maxdepth, fill_open, warned>>

\* set(x, y, value): inBounds is asked to raise, so that out of bounds the
\* call ends with an exception; in bounds it writes the cell and returns True
SetCall ==
  /\ pc = "call" /\ cfg.op = "set"
  /\ IF SetRaises(board, cfg.x, cfg.y)
     THEN board' = board /\ out' = out /\ pc' = "raised"
     ELSE /\ board' = set(board, cfg.x, cfg.y, cfg.value)
          /\ out' = <<"True">>
          /\ pc' = "returned"
  /\ board0' = board
  /\ UNCHANGED <<cfg, cm, stack, data, bias, processed, reprocessed, claimed,
                 reclaimed, opened, knocks, maxdepth, fill_open, warned>>

\* findPattern(find, x, y): the list returned is kept in data
FindPatternCall ==
  /\ pc = "call" /\ cfg.op = "findPattern"
  /\ data' = findPattern(board, cfg.find, cfg.x, cfg.y)
  /\ board0' = board
  /\ pc' = "returned"
  /\ UNCHANGED <<cfg, board, cm, stack, bias, out, processed, reprocessed,
                 claimed, reclaimed, opened, knocks, maxdepth, fill_open, warned>>

\* the board and the outcome replace leaves; r is [board, raised]
Replaced(r) ==
  /\ board' = r.board
  /\ pc' = IF r.raised THEN "raised" ELSE "returned"

\* replace(find, block)
ReplaceCall ==
  /\ pc = "call" /\ cfg.op = "replace"
  /\ Replaced(replace(board, cfg.find, cfg.block))
  /\ board0' = board
  /\ UNCHANGED <<cfg, cm, stack, data, bias, out, processed, reprocessed,
                 claimed, reclaimed, opened, knocks, maxdepth, fill_open, warned>>

NextGrid ==
  \/ GetCall
  \/ SetCall
  \/ FindPatternCall
  \/ ReplaceCall

SpecGrid == InitGrid /\ [][NextGrid]_vars

\* ------------------------------------------------------------------------
\* One fill call with find and replace strings of any length
\* ------------------------------------------------------------------------

\* the boards filled: two rows of two cells, blank or the diagonal wall glyph
WarnBoards == [1..2 -> [1..2 -> FillChars]]

\* the find and replace strings tried: none, one or two characters
WarnStrings == {"", unvisited, "/", visited} \cup TwoChars

\* the seeds tried: the cells of the board and one cell around it
WarnSeeds == {<<x, y>> : x \in -1..2, y \in -1..2}

\* the calls tried: fill(x, y, find, replace) with find and replace equal or
\* of different lengths, or (for comparison) well formed
WarnCalls ==
  {FillConfig(f, r, <<p>>, -1, FALSE, TRUE) :
     f \in WarnStrings, r \in WarnStrings, p \in WarnSeeds}

InitWarn ==
  /\ board \in WarnBoards
  /\ cfg \in WarnCalls
  /\ pc = "fill"
  /\ cm = NoCm
  /\ stack = <<>>
  /\ data = <<>>
  /\ bias = <<>>
  /\ out = <<>>
  /\ board0 = <<>>
  /\ processed = {}
  /\ reprocessed = {}
  /\ claimed = {}
  /\ reclaimed = {}
  /\ opened = {}
  /\ knocks = 0
  /\ maxdepth = 0
  /\ fill_open = FALSE
  /\ warned = <<>>

NextWarn == FillCall

SpecWarn == InitWarn /\ [][NextWarn]_vars

\* ------------------------------------------------------------------------
\* One setMacroChar call on the board of a one-character microspace template
\* ------------------------------------------------------------------------

\* the template characters tried: the four glyphs with a mask of their own
\* that the walls hold, a letter (a solid block) and the visited marker
MacroChars == {"_", "|", "-", "/", "a", visited}

\* the values written: the two whitespace characters, a letter and a corner
MacroValues == {unvisited, visited, "a", "+"}

\* one call: the object's settings, the template and the call's arguments
MacroCall(c, x, y, value) ==
  [template |-> <<c>>, pad |-> 1, thickness |-> 1, length |-> -1,
   use_microspace |-> TRUE, scan_diagonal |-> TRUE, scan_wall_space |-> TRUE,
   close_implied_wall |-> TRUE, dot_last_underscore |-> FALSE,
   create_maze |-> FALSE, x |-> x, y |-> y, value |-> value]

\* the calls tried: every position of the parsed board (five columns, six
\* rows and the empty row after them) and one cell around it
MacroCalls ==
  {MacroCall(c, x, y, v) : c \in MacroChars, x \in -1..5, y \in -1..7,
                           v \in MacroValues}

InitMacro ==
  /\ cfg \in MacroCalls
  /\ board = << <<>> >>
  /\ pc = "parse"
  /\ cm = NoCm
  /\ stack = <<>>
  /\ data = <<>>
  /\ bias = <<>>
  /\ out = <<>>
  /\ board0 = <<>>
  /\ processed = {}
  /\ reprocessed = {}
  /\ claimed = {}
  /\ reclaimed = {}
  /\ opened = {}
  /\ knocks = 0
  /\ maxdepth = 0
  /\ fill_open = FALSE
  /\ warned = <<>>

\* the board, the list returned (kept in data) and the outcome of the call r
MacroReturned(r) ==
  /\ board' = r.board
  /\ data' = r.changed
  /\ pc' = IF r.raised THEN "raised" ELSE "returned"

\* setMacroChar(x, y, value) on the parsed board
SetMacroCharCall ==
  /\ pc = "done"
  /\ MacroReturned(setMacroChar(board, cfg.x, cfg.y, cfg.value, cfg))
  /\ board0' = board
  /\ UNCHANGED <<cfg, cm, stack, bias, out, processed, reprocessed, claimed,
                 reclaimed, opened, knocks, maxdepth, fill_open, warned>>

NextMacro ==
  \/ ParseTemplate
  \/ SetMacroCharCall

SpecMacro == InitMacro /\ [][NextMacro]_vars

\* ------------------------------------------------------------------------
\* Properties
\* ------------------------------------------------------------------------

\* the four cardinal steps and the eight steps with the diagonals
Adj4 == {<<0, -1>>, <<0, 1>>, <<-1, 0>>, <<1, 0>>}

Adj8 == Adj4 \cup {<<1, -1>>, <<-1, -1>>, <<1, 1>>, <<-1, 1>>}

\* the cells of `among` joined to a cell of S by a chain of adjacent cells of
\* `among`
RECURSIVE Grow(_, _, _)
Grow(S, among, adj) ==
  LET T == S \cup {q \in among :
                     \E p \in S, d \in adj : q = <<p[1] + d[1], p[2] + d[2]>>}
  IN  IF T = S THEN S ELSE Grow(T, among, adj)

\* createMaze has returned
Carved == pc \in {"done", "rendered"} /\ board0 # <<>>

\* carving is under way or over: initOutside has run
Carving == pc \in {"start", "loop1", "loop2", "post", "done", "rendered"}

\* from p, the n cells along d hold one wall glyph that is no corner, and the
\* cell after them is unvisited
OpensFrom(b, p, d, n) ==
  LET c == get(b, p[1] + d[1], p[2] + d[2])
  IN  /\ c \in walls \ corners
      /\ \A k \in 1..n : get(b, p[1] + k * d[1], p[2] + k * d[2]) = c
      /\ get(b, p[1] + (n + 1) * d[1], p[2] + (n + 1) * d[2]) = unvisited

\* C1 (full coverage): when createMaze has returned, no cell claimed during
\* carving has, in a cardinal direction, between 1 and thickness identical
\* non-corner wall cells followed by an unvisited cell.
C1_FullCoverage ==
  Carved =>
    \A p \in claimed : \A d \in Adj4 : \A n \in 1..cfg.thickness :
      get(board, p[1], p[2]) = visited => ~OpensFrom(board, p, d, n)

\* the template of three rooms in a row is the one parsed
IsRowOfRooms == cfg.template = JoinLines(RowOfRooms, <<"\n">>)

\* the rooms of a template of one-cell rooms: the cells left unvisited when
\* carving starts
Rooms == {p \in Cells(board0) : get(board0, p[1], p[2]) = unvisited}

\* the cells of the board that hold no wall glyph
NonWallCells(b) == {p \in Cells(b) : get(b, p[1], p[2]) \notin walls}

\* C2 (spanning tree): for the template of R = 3 rooms in a row, when
\* createMaze has returned exactly R - 1 wall segments (one cell each) have
\* been removed and every room is joined to every other room by non-wall
\* cells, whatever the start cell and the direction orders were.
C2_SpanningTree ==
  (Carved /\ IsRowOfRooms) =>
    /\ Cardinality(opened) = Cardinality(Rooms) - 1
    /\ \A p \in Rooms : Rooms \subseteq Grow({p}, NonWallCells(board), Adj4)

\* the board as parsed, before createMaze
Parsed == parseTemplate(cfg.template, cfg)

\* the avoid region of a parsed board: the avoid cells and the blank cells
\* joined to them
AvoidRegion(b) ==
  Grow({p \in Cells(b) : get(b, p[1], p[2]) = avoid},
       {p \in Cells(b) : get(b, p[1], p[2]) \in {avoid, unvisited}},
       Adj4)

\* the wall cells of a parsed board next to its avoid region
AvoidBoundary(b) ==
  LET region == AvoidRegion(b)
  IN  {p \in Cells(b) :
         /\ get(b, p[1], p[2]) \in walls
         /\ \E d \in Adj4 : <<p[1] + d[1], p[2] + d[2]>> \in region}

\* C3 (avoid): every wall cell next to the avoid region of the template
\* holds its wall glyph while carving runs and when it has ended.
C3_AvoidBoundaryIntact ==
  (Carving /\ cfg.create_maze) =>
    LET b == Parsed
    IN  \A p \in AvoidBoundary(b) : get(board, p[1], p[2]) = get(b, p[1], p[2])

\* the padding frame of a board: the outer pad rows (the last row of the
\* board is the empty one after the final line end) and the outer pad
\* columns of the widest row
FrameCells(b, pad) ==
  LET h == Len(b) - 1
      w == MaxLineLen(b)
  IN  {p \in Cells(b) : \/ p[2] < pad \/ (p[2] >= h - pad /\ p[2] < h)
                        \/ p[1] < pad \/ p[1] >= w - pad}

\* C4 (border containment): with pad >= 1, from the end of initOutside to
\* the end of the carving walk every cell of the padding frame holds the
\* visited marker.
C4_BorderContainment ==
  (cfg.pad >= 1 /\ pc \in {"start", "loop1", "loop2"}) =>
    \A p \in FrameCells(board, cfg.pad) : get(board, p[1], p[2]) = visited

\* the changes of one board cell carving may make: unvisited to visited, or
\* a wall glyph to unvisited
WalkChange(a, b) ==
  \/ a = unvisited /\ b = visited
  \/ a \in walls /\ b = unvisited

\* the cells that post-processing closed: the wall glyph _ stands where the
\* visited marker stood when carving started
Closed ==
  {p \in Cells(board0) :
     get(board0, p[1], p[2]) = visited /\ get(board, p[1], p[2]) = "_"}

\* one step in which every board cell that changes changes as carving may
WalkStep ==
  board' = board \/ \A p \in Cells(board) :
    get(board', p[1], p[2]) # get(board, p[1], p[2]) =>
      WalkChange(get(board, p[1], p[2]), get(board', p[1], p[2]))

\* one step in which every board cell that changes is a visited cell
\* directly above a corner that becomes the wall glyph _
CloseStep ==
  \A p \in Cells(board) :
    get(board', p[1], p[2]) # get(board, p[1], p[2]) =>
      /\ get(board, p[1], p[2]) = visited
      /\ get(board', p[1], p[2]) = "_"
      /\ get(board, p[1], p[2] + 1) \in corners

C6_NoRevisits == reprocessed = {}

\* the distinct positions a fill call replaced cells in
ReplacedPositions == {WallPos(data[i][1], data[i][2], cfg) : i \in 1..Len(data)}

\* C7 (wall cap): a fill call under a length cap N whose find character is
\* a wall glyph replaces cells in at most N distinct positions.
C7_WallCap ==
  (pc = "filled" /\ cfg.length # -1 /\ cfg.find \in walls) =>
    Cardinality(ReplacedPositions) <= cfg.length

\* the cells a flood fill reaches: the cells holding find that a chain of
\* adjacent cells holding find joins to a seed holding find
Region(b, points, find, diag) ==
  LET among == {p \in Cells(b) : get(b, p[1], p[2]) = find}
  IN  Grow(SeqSet(points) \cap among, among,
           IF diag /\ find \in {"/", "\\"} THEN Adj8 ELSE Adj4)

\* C8 (flood fill): without a length cap and with find # replace, fillPoints
\* changes to replace exactly the cells of the region of its seeds, leaves
\* every other cell as it was, and returns the region's coordinates, each
\* once.
C8_FloodFill ==
  (pc = "filled" /\ cfg.length = -1 /\ cfg.find # cfg.replace) =>
    LET R == Region(board0, cfg.points, cfg.find, cfg.scan_diagonal)
    IN  /\ \A p \in Cells(board0) :
             get(board, p[1], p[2]) = IF p \in R THEN cfg.replace
                                      ELSE get(board0, p[1], p[2])
        /\ SeqSet(data) = R
        /\ Len(data) = Cardinality(R)
        /\ ~fill_open

\* C8 witness: an uncapped fill of the diagonal wall glyph has returned a
\* region of three cells or more, one of them joined to the rest by a
\* diagonal step only.
C8_Witness ==
  /\ pc = "filled" /\ cfg.length = -1 /\ cfg.find = "/" /\ cfg.scan_diagonal
  /\ Len(data) >= 3
  /\ Region(board0, cfg.points, cfg.find, FALSE) # SeqSet(data)

\* how far createMaze and the rendering are from their end
Rank ==
  CASE pc = "parse" -> 8
    [] pc = "pre" -> 7
    [] pc = "outside" -> 6
    [] pc = "start" -> 5
    [] pc = "loop1" -> 4
    [] pc = "loop2" -> 3
    [] pc = "post" -> 2
    [] pc = "done" -> 1
    [] OTHER -> 0

\* the number of cells in the rows k.. of the board at or after the scan
\* position of the running createMaze loop
RECURSIVE ScanFrom(_)
ScanFrom(k) ==
  IF k > Len(board) THEN 0
  ELSE (IF k - 1 > cm.y THEN Len(board[k])
        ELSE IF k - 1 = cm.y /\ Len(board[k]) > cm.x THEN Len(board[k]) - cm.x
        ELSE 0) + ScanFrom(k + 1)

\* the cells a createMaze loop has still to scan
ScanLeft == ScanFrom(1)

\* the number of cells in the rows 1..k of the board that hold a character
\* of S
RECURSIVE CountCells(_, _)
CountCells(k, S) ==
  IF k = 0 THEN 0
  ELSE Cardinality({i \in 1..Len(board[k]) : board[k][i] \in S})
         + CountCells(k - 1, S)

\* the work left in the active walk calls 1..k
RECURSIVE FrameWork(_)
FrameWork(k) ==
  IF k = 0 THEN 0
  ELSE Len(stack[k].deltas) + Cardinality(stack[k].changed) + 1 + FrameWork(k - 1)

\* the work left in the running top-level walk: every wall cell can be
\* knocked down once, every unvisited cell claimed once, every cell entered
\* once (data lists the cells entered), and every active call has its
\* directions and its claimed cells to go through
WalkLeft ==
  IF stack = <<>> THEN 0
  ELSE 3 * CountCells(Len(board), walls) + 2 * CountCells(Len(board), {unvisited})
         + 6 * (CellCount(board) - Len(data)) + FrameWork(Len(stack))

\* the step brings the run nearer its end: the triple of natural numbers
\* (Rank, ScanLeft, WalkLeft) decreases in the lexicographic order
Nearer ==
  LET r0 == Rank
      r1 == Rank'
      s0 == ScanLeft
      s1 == ScanLeft'
  IN  \/ r1 < r0
      \/ r1 = r0 /\ s1 < s0
      \/ r1 = r0 /\ s1 = s0 /\ WalkLeft' < WalkLeft

\* no fill loop outlasted its unrolling, no cell went from unvisited to
\* visited twice, walk calls never nested deeper than the board has cells,
\* and no more cells were entered than the board has
Bounded ==
  LET n == CellCount(board)
  IN  ~fill_open /\ reclaimed = {} /\ maxdepth <= n /\ Len(data) <= n

\* C9 (termination): every step of createMaze and of the rendering brings
\* the run nearer its end in a well-founded order, so that every run ends
\* whatever the random choices are; every fill loop ends within its
\* unrolling; no cell goes from unvisited to visited twice; the nesting of
\* walk calls never exceeds the number of board cells.
C9_Termination == [][Nearer /\ Bounded /\ Bounded']_vars

\* C9 witness: a parse has ended after a carving that knocked walls down
\* twice and nested walk calls three deep.
C9_Witness == pc = "rendered" /\ knocks >= 2 /\ maxdepth >= 3

\* the lines of the rendered text (the text ends with a line end)
OutLines ==
  LET ls == str_split(out, eol2)
  IN  SubSeq(ls, 1, Len(ls) - 1)

\* the lines of the template
TemplateLines == str_split(cfg.template, eol)

\* C10 (output dimensions): the non-raw rendering has as many lines as the
\* template, each as wide as the template's longest line.
C10_OutputDimensions ==
  pc = "rendered" =>
    /\ Len(OutLines) = Len(TemplateLines)
    /\ \A k \in 1..Len(OutLines) : Len(OutLines[k]) = MaxLineLen(TemplateLines)

\* the lines and the columns of the rendering that come from the whitespace
\* frame, before the first template line and the first template column
FrameLines == IF cfg.use_microspace THEN (cfg.pad + 2) \div 3 ELSE cfg.pad

FrameCols == IF cfg.use_microspace THEN (cfg.pad + 1) \div 3 ELSE cfg.pad

\* the character of the rendering at the template position of line r,
\* column c (both from 1); the empty sentinel when the rendering has none
OutAt(r, c) ==
  LET ls == OutLines
      k == r + FrameLines
      i == c + FrameCols
  IN  IF k \in 1..Len(ls) /\ i \in 1..Len(ls[k]) THEN ls[k][i] ELSE ""

\* the template positions: line and column, both from 1
TemplateCells ==
  LET ls == TemplateLines
  IN  UNION {{<<r, c>> : c \in 1..Len(ls[r])} : r \in 1..Len(ls)}

\* C11 (output content): in the non-raw rendering after carving every
\* character equals the template character at the same logical position,
\* except that a wall glyph, a visited marker or an avoid marker of the
\* template may appear as a space; the rendering holds no visited marker and
\* shows a wall glyph only where the template has that glyph.
C11_OutputContent ==
  (pc = "rendered" /\ cfg.create_maze) =>
    LET ls == OutLines
        ts == TemplateLines
    IN  /\ \A p \in TemplateCells :
             \/ OutAt(p[1], p[2]) = ts[p[1]][p[2]]
             \/ /\ ts[p[1]][p[2]] \in walls \cup {visited, avoid}
                /\ OutAt(p[1], p[2]) = space
        /\ \A k \in 1..Len(ls) : \A i \in 1..Len(ls[k]) :
             /\ ls[k][i] # visited
             /\ ls[k][i] \in walls =>
                  /\ <<k - FrameLines, i - FrameCols>> \in TemplateCells
                  /\ ts[k - FrameLines][i - FrameCols] = ls[k][i]

\* the template with its line ends normalized: \r\n and \r become \n
NormalTemplate ==
  str_replace(str_replace(cfg.template, <<"\r", "\n">>, <<"\n">>), <<"\r">>, <<"\n">>)

\* the lines of the template, whichever line end separates them
NormalLines == str_split(NormalTemplate, "\n")

\* the positions of the template's characters: line and column, both from 1
NormalCells ==
  LET ls == NormalLines
  IN  UNION {{<<r, c>> : c \in 1..Len(ls[r])} : r \in 1..Len(ls)}

\* what a template character collapses to: itself, the visited marker to a
\* space
Collapsed(c) == IF c = visited THEN space ELSE c

\* C12 (codec round trip): in microspace mode, for a template parsed without
\* carving, the macro cell produced for the character at line r, column c
\* collapses by its identity position to that character (the visited marker
\* to a space), and the rendering shows it at that line and column.
C12_CodecRoundTrip ==
  (pc \in {"done", "rendered"} /\ cfg.use_microspace /\ ~cfg.create_maze) =>
    LET ls == NormalLines
    IN  \A p \in NormalCells :
          /\ getMacroCharValue(board, cfg.pad + 3 * (p[2] - 1),
                               cfg.pad + 3 * (p[1] - 1), cfg.pad)
               = Collapsed(ls[p[1]][p[2]])
          /\ pc = "rendered" => OutAt(p[1], p[2]) = Collapsed(ls[p[1]][p[2]])

\* the 3x3 macro cell of the board for the template character at line r,
\* column c (both from 1)
MacroCell(b, r, c) ==
  [j \in 1..3 |->
     [i \in 1..3 |-> get(b, cfg.pad + 3 * (c - 1) + i - 1,
                         cfg.pad + 3 * (r - 1) + j - 1)]]

\* the one-character template "_" has been parsed in microspace mode, without
\* carving
UnderscoreParsed ==
  /\ pc \in {"done", "rendered"}
  /\ cfg.template = <<"_">> /\ cfg.use_microspace /\ ~cfg.create_maze

\* C13 as stated (underscore mask): the macro cell of the parsed "_" is the
\* three rows "   ", " _ ", "___".
C13_UnderscoreMask ==
  UnderscoreParsed =>
    MacroCell(board, 1, 1)
      = << <<" ", " ", " ">>, <<" ", "_", " ">>, <<"_", "_", "_">> >>

\* C13 amended: the macro cell of the parsed "_" is the three rows "   ",
\* "   ", "___": only the bottom row carries the glyph.
C13_UnderscoreMaskBottom ==
  UnderscoreParsed =>
    MacroCell(board, 1, 1)
      = << <<" ", " ", " ">>, <<" ", " ", " ">>, <<"_", "_", "_">> >>

\* C13 witness: "_" has been parsed in microspace mode and the bottom centre
\* of its macro cell holds the glyph.
C13_Witness ==
  UnderscoreParsed /\ get(board, cfg.pad + 1, cfg.pad + 2) = "_"

\* C14 (line-ending independence): the board parseTemplate builds for a
\* template is the board it builds for the same lines separated by \n, and
\* in plain mode every line of the template is one board row: the line
\* without its trailing blanks between pad blanks on the left and blanks up
\* to the full width on the right.
C14_LineEndIndependence ==
  pc = "done" =>
    LET ls == NormalLines
        w == MaxLineLen(ls) + 2 * cfg.pad
    IN  /\ board = parseTemplate(NormalTemplate, cfg)
        /\ ~cfg.use_microspace =>
             /\ Len(board) = Len(ls) + 2 * cfg.pad + 1
             /\ \A k \in 1..Len(ls) :
                  LET l == str_rstrip(ls[k])
                  IN  board[cfg.pad + k]
                        = str_repeat(" ", cfg.pad) \o l
                            \o str_repeat(" ", w - cfg.pad - Len(l))

\* the position of the call is a cell of board b: y is a row of b and x is
\* within that row's own length
CallInside(b) ==
  /\ cfg.y \in 0..(Len(b) - 1)
  /\ cfg.x \in 0..(Len(b[cfg.y + 1]) - 1)

\* C15 (get is total): get(x,y) never raises and never changes the board; it
\* returns the cell's character when y is a row and x is within that row's
\* own length, and the empty sentinel otherwise.
C15_GetTotal ==
  cfg.op = "get" =>
    /\ pc # "raised"
    /\ pc = "returned" =>
         /\ board = board0
         /\ out = IF CallInside(board0) THEN <<board0[cfg.y + 1][cfg.x + 1]>>
                  ELSE <<>>

\* C15 witness: get has returned the empty sentinel for a column past the
\* end of a short row that a longer row of the board has, and for a negative
\* column of a row that is not empty.
C15_Witness ==
  /\ cfg.op = "get" /\ pc = "returned" /\ out = <<>>
  /\ \/ /\ cfg.y = 0 /\ Len(board0) = 2
        /\ cfg.x >= Len(board0[1]) /\ cfg.x < Len(board0[2])
     \/ cfg.y = 0 /\ cfg.x = -1 /\ Len(board0[1]) > 0

\* C16 (set contract): set(x,y,value) never raises; out of bounds it returns
\* failure and leaves the board unchanged; in bounds it returns success and
\* changes exactly that one cell.
C16_SetContract ==
  cfg.op = "set" =>
    /\ pc # "raised"
    /\ pc = "returned" =>
         IF CallInside(board0)
         THEN /\ out = <<"True">>
              /\ board = [board0 EXCEPT ![cfg.y + 1][cfg.x + 1] = cfg.value]
         ELSE /\ out = <<"False">>
              /\ board = board0

\* C17 (no fault): parseTemplate followed by toString never ends with an
\* exception, whatever the template is.
C17_NoFault == pc # "raised"

\* the positions of board b at which the rectangular pattern find matches
\* cell for cell, every cell of the rectangle being a cell of the board; a
\* pattern with no row or with empty rows matches nowhere
Matches(b, find) ==
  IF Len(find) = 0 THEN {}
  ELSE IF Len(find[1]) = 0 THEN {}
  ELSE {p \in Cells(b) :
          \A j \in 1..Len(find) : \A i \in 1..Len(find[1]) :
            /\ p[2] + j <= Len(b)
            /\ p[1] + i <= Len(b[p[2] + j])
            /\ b[p[2] + j][p[1] + i] = find[j][i]}

\* the list holds no position twice and is in scan order: top to bottom,
\* and left to right within a row
InScanOrder(points) ==
  \A i \in 1..Len(points) : \A j \in (i + 1)..Len(points) :
    Before(points[i], points[j])

\* C20 (findPattern): scanned from the origin, findPattern returns exactly
\* the positions of the board at which the pattern matches cell for cell,
\* each once, in scan order, on boards whose rows may differ in length, and
\* leaves the board as it was.
C20_FindPattern ==
  (cfg.op = "findPattern" /\ pc = "returned") =>
    /\ SeqSet(data) = Matches(board0, cfg.find)
    /\ InScanOrder(data)
    /\ board = board0

\* the block written at position m covers cell p
Covers(m, p, block) ==
  /\ p[2] - m[2] \in 0..(Len(block) - 1)
  /\ p[1] - m[1] \in 0..(Len(block[1]) - 1)

\* the last position of a non-empty set of positions in scan order
LastOf(S) == CHOOSE m \in S : \A n \in S : n = m \/ Before(n, m)

\* the character the block written at position m leaves in cell p
BlockAt(m, p, block) == block[p[2] - m[2] + 1][p[1] - m[1] + 1]

\* board b after the block has been written at every position of S, in scan
\* order: a cell no block covers keeps its character, every other cell holds
\* the character of the last block that covers it
Rewritten(b, S, block) ==
  [k \in 1..Len(b) |->
     [i \in 1..Len(b[k]) |->
        LET p == <<i - 1, k - 1>>
            cov == {m \in S : Covers(m, p, block)}
        IN  IF cov = {} THEN b[k][i] ELSE BlockAt(LastOf(cov), p, block)]]

\* C18 (replace rewrites every match): replace never raises for a block of
\* the shape of the find pattern, and the board it leaves is the board before
\* the call with the block written at every position that matched before the
\* call, in scan order, whether or not an earlier write destroyed the match,
\* and at no other position.
C18_ReplaceAllMatches ==
  cfg.op = "replace" =>
    /\ pc # "raised"
    /\ pc = "returned" =>
         board = Rewritten(board0, Matches(board0, cfg.find), cfg.block)

\* every order of the positions of S
RECURSIVE Orders(_)
Orders(S) ==
  IF S = {} THEN {<<>>}
  ELSE UNION {{<<m>> \o o : o \in Orders(S \ {m})} : m \in S}

\* the positions replace computes before it writes
Found == findPattern(board0, cfg.find, 0, 0)

\* no cell of the board is covered by the blocks of two positions of S
NoOverlap(S, block) ==
  \A m \in S : \A n \in S \ {m} :
    \A p \in Cells(board0) : ~(Covers(m, p, block) /\ Covers(n, p, block))

\* the board is the one every order of rewriting the computed positions
\* gives
AnyOrder ==
  \A o \in Orders(SeqSet(Found)) :
    ReplaceAt([board |-> board0, raised |-> FALSE], o, 1, cfg.block).board = board

\* C19 as stated (order independence): the board replace leaves is the board
\* that rewriting the computed match positions gives in whichever order,
\* overlapping matches included.
C19_OrderIndependent ==
  (cfg.op = "replace" /\ pc = "returned") => AnyOrder

\* C19 amended: when no two of the computed matches overlap, the board replace
\* leaves is the board that rewriting them gives in whichever order.
C19_OrderIndependentApart ==
  (cfg.op = "replace" /\ pc = "returned"
     /\ NoOverlap(SeqSet(Found), cfg.block)) => AnyOrder

\* C19 witness: replace has rewritten two matches or more of a pattern of
\* two cells, no two of them overlapping.
C19_Witness ==
  /\ cfg.op = "replace" /\ pc = "returned"
  /\ Len(cfg.find) > 0 /\ Len(cfg.find) * Len(cfg.find[1]) = 2
  /\ Len(Found) >= 2
  /\ NoOverlap(SeqSet(Found), cfg.block)
  /\ board # board0

\* the step is a walk call that draws its direction list: a new walk frame
\* is pushed
Called == Len(stack') > Len(stack)

\* the direction list getDeltas returned to the walk call of the step
Drawn == stack'[Len(stack')].deltas

\* how often direction d was taken so far in the current top-level walk; a
\* direction never taken counts as zero
Taken(bs, d) ==
  IF \E i \in 1..Len(bs) : bs[i].d = d
  THEN bs[CHOOSE i \in 1..Len(bs) : bs[i].d = d].n
  ELSE 0

\* the list drawn holds each of the four cardinal deltas exactly once
FourDrawn ==
  /\ Len(Drawn) = 4
  /\ \A k \in 1..Len(deltas) : InSeq(deltas[k], Drawn)

\* C21 (four directions): the direction list every walk call draws from
\* getDeltas holds each of the four deltas N, S, E, W exactly once, whatever
\* the bias counters hold.
C21_FourDirections == [][Called => FourDrawn]_vars

\* the list drawn starts with a direction taken least often and ends with a
\* direction taken most often
BiasOrdered ==
  /\ Len(Drawn) > 0
  /\ \A k \in 1..Len(deltas) :
       /\ Taken(bias', Drawn[1]) <= Taken(bias', deltas[k])
       /\ Taken(bias', Drawn[Len(Drawn)]) >= Taken(bias', deltas[k])

\* C22 (bias correction): whenever at least one direction has been taken in
\* the current top-level walk, the first direction getDeltas returns is one
\* taken least often so far, a direction never taken counting as zero, and
\* the last one is one taken most often so far.
C22_BiasCorrection == [][(Called /\ Len(bias') > 0) => BiasOrdered]_vars

\* the identity position of the macro cell of the call's position, and the
\* character it holds
CallIdPos == getMacroCharIdPos(board0, cfg.x, cfg.y, cfg.pad)

CallId == get(board0, CallIdPos[1], CallIdPos[2])

\* the cells of the macro cell of the call's position at which the mask of
\* character c is not blank
MaskCells(c) ==
  LET p0 == getMacroCharTopLeftPos(cfg.x, cfg.y, cfg.pad)
  IN  {q \in Cells(board0) :
         /\ q[1] - p0[1] \in 0..2
         /\ q[2] - p0[2] \in 0..2
         /\ getMacroCharMap(c)[q[2] - p0[2] + 1][q[1] - p0[1] + 1] # " "}

\* the cells setMacroChar is to overwrite
MacroTargets ==
  IF get(board0, cfg.x, cfg.y) \in {visited, unvisited} THEN {<<cfg.x, cfg.y>>}
  ELSE IF CallId = cfg.value THEN {}
  ELSE MaskCells(CallId)

\* C23 (setMacroChar): on a cell of the board the call does not raise; on a
\* whitespace cell it overwrites only (x,y); on a cell that is no whitespace
\* and whose macro-cell identity equals the value it changes nothing;
\* otherwise it overwrites with the value every cell of the old character's
\* mask that is not blank; the list returned holds the cells changed.
C23_SetMacroChar ==
  (pc = "returned" /\ CallInside(board0)) =>
    /\ \A p \in Cells(board0) :
         get(board, p[1], p[2]) = IF p \in MacroTargets THEN cfg.value
                                  ELSE get(board0, p[1], p[2])
    /\ \A p \in Cells(board0) :
         get(board, p[1], p[2]) # get(board0, p[1], p[2]) <=> InSeq(p, data)

\* the board initOutside is called on: the parsed board, pre-processed in
\* microspace mode
Presealed == IF cfg.use_microspace THEN imagePreProcess(Parsed) ELSE Parsed

\* the template holds an avoid marker
HasAvoid == InSeq(avoid, cfg.template)

\* the walks of createMaze are under way, or over and not yet post-processed
Walking == pc \in {"start", "loop1", "loop2", "post"}

\* C24 (avoid sealing): from the end of initOutside to the end of the last
\* walk no cell holds the avoid marker, and every cell joined to an avoid cell
\* of the template through 4-adjacent unvisited or avoid cells holds the
\* visited marker.
C24_AvoidSealed ==
  (Walking /\ HasAvoid) =>
    /\ \A p \in Cells(board) : get(board, p[1], p[2]) # avoid
    /\ \A p \in AvoidRegion(Presealed) : get(board, p[1], p[2]) = visited

\* C24 witness: a walk has returned on a template whose avoid region has
\* three cells or more.
C24_Witness ==
  /\ pc = "loop2" /\ stack = <<>>
  /\ processed # {}
  /\ HasAvoid
  /\ Cardinality(AvoidRegion(Presealed)) >= 3

\* the fill request is malformed: find and replace differ in length or are
\* equal
Malformed == len(cfg.find) # len(cfg.replace) \/ cfg.find = cfg.replace

\* C25 (malformed fill request): a fill call whose find and replace strings
\* differ in length, or are equal, prints a warning and does not raise; with
\* find equal to replace the board is left as it was and the list returned is
\* the one passed in.
C25_MalformedFill ==
  (pc \in {"filled", "raised"} /\ Malformed) =>
    /\ pc = "filled"
    /\ Len(warned) > 0
    /\ (cfg.find = cfg.replace) => (board = board0 /\ data = <<>>)

\* the character j cells from the cell of the innermost walk along d
Ahead(d, j) == get(board, top.x + j * d[1], top.y + j * d[2])

\* from the cell of the innermost walk along d: k cells that are neither wall
\* nor corner nor off the board, then n cells of one wall glyph that is no
\* corner, then an unvisited cell
WallAhead(d, k, n) ==
  /\ \A j \in 1..k : Ahead(d, j) \notin (walls \cup corners \cup {""})
  /\ Ahead(d, k + 1) \in walls \ corners
  /\ \A j \in (k + 1)..(k + n) : Ahead(d, j) = Ahead(d, k + 1)
  /\ Ahead(d, k + n + 1) = unvisited

\* the first wall met along d is a run of 1..thickness cells of one glyph,
\* no corner, with an unvisited cell right behind it
Breakable(d) ==
  \E k \in 0..(MaxLineLen(board) + Len(board)) : \E n \in 1..cfg.thickness :
    WallAhead(d, k, n)

\* the innermost walk is trying the next direction of its list
Probing ==
  /\ pc \in {"loop1", "loop2"} /\ stack # <<>>
  /\ top.phase = "probe" /\ top.changed = {} /\ top.deltas # <<>>

\* the direction tried is breakable in the state the step starts from
BreakableAhead == Breakable(Head(top.deltas))

\* C26 (probe rule): a walk step that tries a direction changes a cell of the
\* board only if, scanning from the walk's cell in that direction, the first
\* wall met is a run of 1..thickness cells of one glyph, none a corner, with
\* an unvisited cell right behind it; in every other case (board edge, corner,
\* second glyph, too thick a wall, a visited or other cell behind the wall)
\* the step changes no cell.
C26_ProbeRule == [][(Probing /\ board' # board) => BreakableAhead]_vars

\* C26 witness: a probe has just knocked down a wall of two cells or more.
C26_Witness ==
  /\ pc \in {"loop1", "loop2"} /\ stack # <<>>
  /\ top.phase = "claim"
  /\ knocks >= 1 /\ Cardinality(opened) >= 2

\* the cells that held the corner character + when the first walk started
CornerCells == {p \in Cells(board0) : get(board0, p[1], p[2]) = "+"}

\* C27 (corners are never removed): from the start of the first walk to the
\* return of the last one, every cell that held the corner character + when
\* the first walk started holds it.
C27_CornersKept ==
  Walking => \A p \in CornerCells : get(board, p[1], p[2]) = "+"

\* C27 witness: the last walk has returned, walls were knocked down and the
\* board has corners.
C27_Witness ==
  /\ pc = "loop2" /\ stack = <<>> /\ Loop2Cells = {}
  /\ CornerCells # {}
  /\ knocks >= 1

\* the claimed cells an active walk call has still to call walk on
Pending == UNION {stack[i].changed : i \in 1..Len(stack)}

\* C28 (claimed cells are processed): every cell a room claim has turned
\* from unvisited to visited has been entered by a walk call (appended to the
\* processed list, its directions drawn) or is still queued in an active
\* call; when the top-level walk has returned nothing is queued, so every
\* claimed cell has been processed.
C28_ClaimedProcessed ==
  Walking => claimed \subseteq (processed \cup Pending)

\* C28 witness: the top-level walk has returned after claiming three cells
\* or more, the cell it started from among them.
C28_Witness ==
  /\ pc \in {"loop1", "loop2"} /\ stack = <<>>
  /\ Cardinality(claimed) >= 3
  /\ Len(data) >= 3 /\ data[1] \in claimed

\* the step is a recursive walk call on a cell a probe has knocked a wall
\* down from
WallSpaceCalled ==
  /\ stack # <<>> /\ Called
  /\ <<stack'[Len(stack')].x, stack'[Len(stack')].y>> \in opened

\* C29 (--no-wall-scan): with scan_wall_space disabled no coordinate of a
\* wall cell knocked down by a probe is passed to a recursive walk call.
C29_NoWallScan == [][~cfg.scan_wall_space => ~WallSpaceCalled]_vars

\* the cells of the straight run of board b from p along d: p and the cells
\* after it as far as every cell from p on holds find
RunCells(b, p, d, find) ==
  {q \in Cells(b) :
     \E k \in 0..(Len(b) + MaxLineLen(b)) :
       /\ q = <<p[1] + k * d[1], p[2] + k * d[2]>>
       /\ \A j \in 0..k : get(b, p[1] + j * d[1], p[2] + j * d[2]) = find}

\* the cells replaced by the first frontier pass of the call on board b
FirstPass(b) ==
  SeqSet(FillPass(FillState(b, <<>>), cfg.points, 1, Len(cfg.points),
                  cfg.find, cfg.replace, cfg).data)

\* every run from a seed along a configured delta lies in the set S
RunsWithin(b, S) ==
  \A i \in 1..Len(cfg.points) : \A k \in 1..Len(FillDeltas(cfg.find, cfg)) :
    RunCells(b, cfg.points[i], FillDeltas(cfg.find, cfg)[k], cfg.find) \subseteq S

\* C30 (runs along every delta): in the first frontier pass of an uncapped
\* fill, for each seed that holds the find character, the straight run of
\* consecutive matching cells from the seed is replaced along every
\* configured delta, not only along the first one.
C30_RunsAlongEveryDelta ==
  (pc = "filled" /\ cfg.length = -1 /\ cfg.find # cfg.replace) =>
    RunsWithin(board0, FirstPass(board0))

====
